---------------------------- MODULE Spec2Model ----------------------------
(***************************************************************************)
(* Verification model of hypothesis-awkward: the budgeted draw coordinator *)
(* (util/draw.py), the recursive content builder (contents/content.py),    *)
(* and the structural wrapper generators (list-offset, list, regular,      *)
(* union).  Every draw() of the Hypothesis engine is a nondeterministic    *)
(* choice over the values the drawn strategy can produce.                  *)
(***************************************************************************)
EXTENDS Integers, Sequences, FiniteSets, TLC

(***************************************************************************)
(* Bounds of the model                                                     *)
(***************************************************************************)
MaxEachBound == 4
MaxTotalBound == 8
MaxDrawsBound == 3
MaxNoneCallsBound == 2

\* Python's None for an optional integer argument
NoneVal == -1

Max2(a, b) == IF a >= b THEN a ELSE b
Min2(a, b) == IF a <= b THEN a ELSE b

\* math.ceil(a / b) for b > 0 (\div rounds towards minus infinity)
CeilDiv(a, b) == -((-a) \div b)

RECURSIVE SumSeq(_)
SumSeq(s) == IF s = <<>> THEN 0 ELSE Head(s) + SumSeq(Tail(s))

(***************************************************************************)
(* State                                                                   *)
(***************************************************************************)
VARIABLES
    \* CountdownDrawer: arguments and closure variables
    min_size_each, max_size_each, min_size_total, max_size_total_arg,
    max_size_total, max_draws, size_total, n_draws,
    \* CountdownDrawer: position ("idle", "new", "ready", "invalid", "raised")
    dpc,
    \* the caller's record of the draws: lengths of the non-None values, and
    \* the number of calls that returned None
    results, n_none,
    \* the last call of the draw function: what it returned, and the size
    \* bounds it passed to st_
    last,
    \* contents(): arguments (allow holds the seven allow_* flags)
    max_size, max_depth, allow, allow_nan,
    \* contents(): position ("idle", "start", "build", "wrap", "done",
    \* "raised", "rejected") and the depth of the running _build call
    cpc, depth,
    \* contents(): the content built so far, as its nodes from the innermost
    \* to the outermost, and the length of its outermost node
    tree, content_len,
    \* contents(): the leaf drawn: its kind, its length, the path that drew
    \* it and the size bounds given to leaf_contents
    leaf,
    \* a structural wrapper strategy: the length of the child content and the
    \* options max_length, max_size and max_zeros_length
    child_len, max_length, regular_max_size, max_zeros_length,
    \* the wrapper strategy drawn from ("-" before the draw), and its draws
    fn, n, size, zeros_length,
    \* the index arrays and the length of the wrapper it returned
    offsets, starts, stops, wlen,
    \* the way the child content is given to the wrapper ("None", "strategy",
    \* "Content"), the objects drawn so far from the strategy given (the
    \* drawn list of a RecordDraws), and the object that is the content of
    \* the wrapper returned
    content_arg, content_drawn, result_content,
    \* union_array_contents: the way the children are given ("None",
    \* "strategy", "list"), the options max_contents and max_length, and the
    \* position ("idle", "start", "done", "rejected", "raised")
    mode, max_contents, union_max_length, upc,
    \* union_array_contents: the lengths of the children, and the tags and
    \* index arrays of the union returned
    children, tags, index,
    \* leaf_contents: the arguments min_size, max_size, allow_nan and the four
    \* allow_* flags, the position ("idle", "start", "strategy", "raised",
    \* "rejected", "done"), the number of draws made from the strategy
    \* returned, and the leaf drawn
    leaf_min_size, leaf_max_size, leaf_allow_nan, leaf_allow, lpc, leaf_draws,
    leaf_result,
    \* misc/record.py: the RecordDraws objects in the order created, each by
    \* its list drawn; the OptsChain objects, each by its lists _recorders and
    \* _callable_recorders; the RecordCallDraws objects, each by its list
    \* _recorders
    drawn, chains, call_recorders,
    \* what happened, kept to state the claims: for each RecordDraws the
    \* RecordCallDraws that created it (0: none), and the values its base
    \* strategy produced and the values do_draw returned since drawn was last
    \* empty; for each RecordCallDraws the draws made from the recorders it
    \* returned since its last reset; the recorders registered on each chain;
    \* for each RecordDraws the number of draws made from it since the last
    \* reset() of a chain it is registered on (NoneVal: no such reset yet);
    \* the number of draws made; for each RecordCallDraws the number of
    \* RecordDraws objects that existed at its last reset
    owner, base_values, returned, call_log, registered, since_reset,
    n_do_draws, reset_mark,
    \* ranges(): the arguments, the position ("idle", "new", "start_drawn",
    \* "done", "failed") and the pair drawn (NoneVal: None)
    min_start, max_start, min_end, max_end, allow_start_none, allow_end_none,
    let_end_none_if_start_none, allow_equal, rpc, start, end

drawerVars == <<min_size_each, max_size_each, min_size_total,
                max_size_total_arg, max_size_total, max_draws, size_total,
                n_draws, dpc, results, n_none, last>>

contentsVars == <<max_size, max_depth, allow, allow_nan, cpc, depth, tree,
                  content_len, leaf>>

wrapperVars == <<child_len, max_length, regular_max_size, max_zeros_length,
                 fn, n, size, zeros_length, offsets, starts, stops, wlen,
                 content_arg, content_drawn, result_content>>

unionVars == <<mode, max_contents, union_max_length, upc, children, tags,
               index>>

leafVars == <<leaf_min_size, leaf_max_size, leaf_allow_nan, leaf_allow, lpc,
              leaf_draws, leaf_result>>

\* the content builders
builderVars == <<drawerVars, contentsVars, wrapperVars, unionVars>>

recordVars == <<drawn, chains, call_recorders, owner, base_values, returned,
                call_log, registered, since_reset, n_do_draws,
                reset_mark>>

rangeVars == <<min_start, max_start, min_end, max_end, allow_start_none,
               allow_end_none, let_end_none_if_start_none, allow_equal, rpc,
               start, end>>

\* the components outside the content builders
miscVars == <<leafVars, recordVars, rangeVars>>

vars == <<builderVars, miscVars>>

NoCall == [ret |-> "-", min_size |-> 0, max_size |-> 0, len |-> 0]

(***************************************************************************)
(* util/draw.py: CountdownDrawer                                           *)
(***************************************************************************)

\* util.safe.safe_min over a pair: the minimum of the values that are not None
safe_min(a, b) ==
    IF a = NoneVal THEN b ELSE IF b = NoneVal THEN a ELSE Min2(a, b)

\* lines 54-61: the lower end of the range the budget is sampled from
MinFloor(me, Me, mt) ==
    IF mt > 0
    THEN IF Me # NoneVal /\ Me > 0
         THEN Max2(mt, CeilDiv(mt, Me) * me)
         ELSE Max2(mt, me)
    ELSE 0

\* the draw function stops without regard to min_size_each
ReturnsNoneIgnoresMinEach(nd, md, remaining, me) ==
    \/ nd >= md
    \/ remaining <= 0

\* lines 69-73: the draw function returns None
ReturnsNone(nd, md, remaining, me) ==
    \/ nd >= md
    \/ remaining <= 0
    \/ remaining < me

\* the per-draw maximum taken without regard to the remaining budget
MaxSize0IgnoresRemaining(Me, remaining) ==
    IF Me = NoneVal THEN remaining ELSE Me

\* the per-draw maximum taken without regard to max_size_each
MaxSize0IgnoresEach(Me, remaining) == remaining

\* line 74
MaxSize0(Me, remaining) == safe_min(Me, remaining)

\* lines 78-81
NeededPerDraw(deficit, remaining_draws) ==
    Max2(CeilDiv(deficit, remaining_draws), 0)

\* lines 83-86: the floor raised to the whole deficit when one draw can hold it
RaisedMin(effective_min, deficit, mx) ==
    IF deficit > 0 /\ deficit <= mx
    THEN Max2(effective_min, deficit)
    ELSE effective_min

\* lines 87-93: the per-draw maximum capped to reserve budget for future draws
CappedMax(mx, effective_min, deficit, remaining, me) ==
    IF deficit > 0 /\ deficit > mx /\ me > 0
    THEN LET needed_future == Max2(CeilDiv(deficit, mx) - 1, 0)
             reserve == me * needed_future
             cap == remaining - reserve
         IN IF cap >= effective_min THEN Min2(mx, cap) ELSE mx
    ELSE mx

\* line 95
ClampMin(effective_min, mx) == Min2(effective_min, mx)

\* line 89 divides by max_size: ZeroDivisionError when it is 0
DivisionByZero(mx, deficit, me) ==
    deficit > 0 /\ deficit > mx /\ me > 0 /\ mx = 0

\* lines 69-95: the size bounds passed to st_ by a call that draws
Request ==
    LET remaining == max_size_total - size_total
        max_size0 == MaxSize0(max_size_each, remaining)
        deficit == min_size_total - size_total
        remaining_draws == max_draws - n_draws
        effective_min0 ==
            Max2(min_size_each, NeededPerDraw(deficit, remaining_draws))
        effective_min1 == RaisedMin(effective_min0, deficit, max_size0)
        max_size1 ==
            CappedMax(max_size0, effective_min0, deficit, remaining,
                      min_size_each)
    IN [min_size |-> ClampMin(effective_min1, max_size1),
        max_size |-> max_size1]

\* line 69
Remaining == max_size_total - size_total

\* the draw counter left as it was
CountDrawForgotten(nd) == nd

\* line 99
CountDraw(nd) == nd + 1

\* lines 54-65: the constructor samples the budget and zeroes the counters
ConstructDrawer(me, Me, mt, Mt, md) ==
    /\ MinFloor(me, Me, mt) <= Mt
    /\ \E budget \in MinFloor(me, Me, mt)..Mt : max_size_total' = budget
    /\ min_size_each' = me
    /\ max_size_each' = Me
    /\ min_size_total' = mt
    /\ max_size_total_arg' = Mt
    /\ max_draws' = md
    /\ size_total' = 0
    /\ n_draws' = 0
    /\ dpc' = "ready"
    /\ results' = <<>>
    /\ n_none' = 0
    /\ last' = NoCall

\* a call that returns None gives a draw back
CountNoneGivesBack(nd) == Max2(nd - 1, 0)

\* lines 70-73: return None, before n_draws is written
CountNone(nd) == nd

\* lines 67-73: a call of the draw function that returns None
DrawContentNone ==
    /\ dpc = "ready"
    /\ ReturnsNone(n_draws, max_draws, Remaining, min_size_each)
    /\ n_none < MaxNoneCallsBound
    /\ n_none' = n_none + 1
    /\ n_draws' = CountNone(n_draws)
    /\ last' = [NoCall EXCEPT !.ret = "None"]
    /\ UNCHANGED <<min_size_each, max_size_each, min_size_total,
                   max_size_total_arg, max_size_total, max_draws, size_total,
                   dpc, results>>

\* lines 67-100: a call of the draw function that draws a value of length len
DrawContentValue(len) ==
    /\ dpc = "ready"
    /\ ~ReturnsNone(n_draws, max_draws, Remaining, min_size_each)
    /\ ~DivisionByZero(MaxSize0(max_size_each, Remaining),
                       min_size_total - size_total, min_size_each)
    /\ len \in Request.min_size..Request.max_size
    /\ size_total' = size_total + len
    /\ n_draws' = CountDraw(n_draws)
    /\ results' = Append(results, len)
    /\ last' = [ret |-> "value", min_size |-> Request.min_size,
                max_size |-> Request.max_size, len |-> len]
    /\ UNCHANGED <<min_size_each, max_size_each, min_size_total,
                   max_size_total_arg, max_size_total, max_draws, dpc,
                   n_none>>

\* line 89: a call of the draw function that raises ZeroDivisionError
DrawContentRaise ==
    /\ dpc = "ready"
    /\ ~ReturnsNone(n_draws, max_draws, Remaining, min_size_each)
    /\ DivisionByZero(MaxSize0(max_size_each, Remaining),
                      min_size_total - size_total, min_size_each)
    /\ dpc' = "raised"
    /\ UNCHANGED <<min_size_each, max_size_each, min_size_total,
                   max_size_total_arg, max_size_total, max_draws, size_total,
                   n_draws, results, n_none, last>>

(***************************************************************************)
(* strategies/contents/leaf.py: leaf_contents                              *)
(***************************************************************************)
LeafKinds == {"numpy", "empty", "string", "bytestring"}

\* the test made of allow_numpy and allow_empty alone
NoLeafAllowedNumpyEmptyOnly(flags) == ~(flags.numpy \/ flags.empty)

\* line 51: no leaf content type is allowed
NoLeafAllowed(flags) ==
    ~(flags.numpy \/ flags.empty \/ flags.string \/ flags.bytestring)

\* EmptyArray offered whatever min_size is
LeafOptionsEmptyAlways(flags, min_size) ==
    {k \in LeafKinds :
        \/ k = "numpy" /\ flags.numpy
        \/ k = "empty" /\ flags.empty
        \/ k = "string" /\ flags.string
        \/ k = "bytestring" /\ flags.bytestring}

\* lines 54-70: the options handed to st.one_of
LeafOptions(flags, min_size) ==
    {k \in LeafKinds :
        \/ k = "numpy" /\ flags.numpy
        \/ k = "empty" /\ flags.empty /\ min_size = 0
        \/ k = "string" /\ flags.string
        \/ k = "bytestring" /\ flags.bytestring}

\* numpy_array.py lines 35-42: numpy_arrays(max_dims=1, min_size=min_size,
\* max_size=max_size) draws a one-dimensional array of min_size to max_size
\* elements
NumpyArrayLengths(min_size, mx) == min_size..mx

\* string.py line 35: st.lists(text_st, min_size=min_size, max_size=max_size)
StringLengths(min_size, mx) == min_size..mx

\* bytestring_contents(min_size, max_size) draws min_size to max_size
\* bytestrings
BytestringLengths(min_size, mx) == min_size..mx

\* the lengths an option produces: an EmptyArray has length 0, the other
\* kinds draw between min_size and max_size elements
LeafLengths(kind, min_size, mx) ==
    CASE kind = "empty" -> {0}
      [] kind = "numpy" -> NumpyArrayLengths(min_size, mx)
      [] kind = "string" -> StringLengths(min_size, mx)
      [] kind = "bytestring" -> BytestringLengths(min_size, mx)

\* the nodes of a leaf, innermost first: a string or bytestring is a
\* ListOffsetArray over a NumpyArray of characters or bytes
LeafNodes(kind) ==
    CASE kind = "numpy" -> <<[type |-> "NumpyArray", parameter |-> "-"]>>
      [] kind = "empty" -> <<[type |-> "EmptyArray", parameter |-> "-"]>>
      [] kind = "string" ->
            <<[type |-> "NumpyArray", parameter |-> "char"],
              [type |-> "ListOffsetArray", parameter |-> "string"]>>
      [] kind = "bytestring" ->
            <<[type |-> "NumpyArray", parameter |-> "byte"],
              [type |-> "ListOffsetArray", parameter |-> "bytestring"]>>

\* allow_nan handed on as True whenever NumpyArray is allowed
NumpyAllowNanMixedUp(an, flags) == flags.numpy

\* leaf.py line 58: allow_nan=allow_nan handed to numpy_array_contents
NumpyAllowNan(an, flags) == an

\* numpy_array.py line 38, numpy.py line 38: elements={'allow_nan': allow_nan}:
\* whether the buffer drawn holds a NaN or NaT.  Only a NumpyArray with at
\* least one element can hold one, and only when allow_nan is True; the
\* characters and bytes of strings and bytestrings are uint8
NanOutcomes(kind, len, an) ==
    IF kind = "numpy" /\ len > 0 /\ an THEN BOOLEAN ELSE {FALSE}

NoLeafResult == [kind |-> "-", len |-> 0, nan |-> FALSE]

\* leaf.py lines 51-52: the call raises ValueError
LeafContentsRaise ==
    /\ lpc = "start"
    /\ NoLeafAllowed(leaf_allow)
    /\ lpc' = "raised"
    /\ UNCHANGED <<leaf_min_size, leaf_max_size, leaf_allow_nan, leaf_allow,
                   leaf_draws, leaf_result>>

\* leaf.py lines 54-71: the call returns the strategy st.one_of(options)
LeafContentsReturn ==
    /\ lpc = "start"
    /\ ~NoLeafAllowed(leaf_allow)
    /\ lpc' = "strategy"
    /\ UNCHANGED <<leaf_min_size, leaf_max_size, leaf_allow_nan, leaf_allow,
                   leaf_draws, leaf_result>>

\* a draw from the strategy returned: one option is chosen and drawn from
LeafContentsDraw ==
    /\ lpc = "strategy"
    /\ LeafOptions(leaf_allow, leaf_min_size) # {}
    /\ \E kind \in LeafOptions(leaf_allow, leaf_min_size) :
         \E len \in LeafLengths(kind, leaf_min_size, leaf_max_size) :
           \E nan \in NanOutcomes(kind, len,
                                  NumpyAllowNan(leaf_allow_nan, leaf_allow)) :
             leaf_result' = [kind |-> kind, len |-> len, nan |-> nan]
    /\ leaf_draws' = leaf_draws + 1
    /\ lpc' = "done"
    /\ UNCHANGED <<leaf_min_size, leaf_max_size, leaf_allow_nan, leaf_allow>>

\* a draw from st.one_of() with no option: the example is rejected
LeafContentsDrawRejected ==
    /\ lpc = "strategy"
    /\ LeafOptions(leaf_allow, leaf_min_size) = {}
    /\ leaf_draws' = leaf_draws + 1
    /\ lpc' = "rejected"
    /\ UNCHANGED <<leaf_min_size, leaf_max_size, leaf_allow_nan, leaf_allow,
                   leaf_result>>

(***************************************************************************)
(* Structural wrappers                                                     *)
(***************************************************************************)
\* list_offset_array.py line 14: max_length
DefaultMaxLength == 5
\* regular_array.py lines 12, 13: max_size and max_zeros_length
DefaultMaxRegularSize == 5
DefaultMaxZerosLength == 5

\* the sizes chosen from without the test that they divide total_items
GroupSizesNotDivisors(total_items, max_group_size) ==
    IF total_items = 0
    THEN 0..max_group_size
    ELSE LET group_sizes == 1..Min2(total_items, max_group_size)
         IN IF group_sizes = {} THEN {0} ELSE group_sizes

\* regular_array.py lines 65-71: the sizes _st_group_sizes chooses from
GroupSizes(total_items, max_group_size) ==
    IF total_items = 0
    THEN 0..max_group_size
    ELSE LET group_sizes ==
                 {d \in 1..Min2(total_items, max_group_size) :
                     total_items % d = 0}
         IN IF group_sizes = {} THEN {0} ELSE group_sizes

\* a zeros_length drawn whatever the size
ZerosLengthsDrawnAlways(sz, mzl) == 0..mzl

\* regular_array.py lines 43-46: zeros_length is drawn from
\* [0, max_zeros_length] when the size is 0, and not given otherwise
ZerosLengths(sz, mzl) == IF sz = 0 THEN 0..mzl ELSE {NoneVal}

\* awkward's RegularArray: the length is zeros_length when size is 0, and
\* the number of whole groups of the content otherwise
RegularLength(total_items, sz, zl) ==
    IF sz = 0 THEN zl ELSE total_items \div sz

\* list_offset_array.py lines 47-62: offsets_list has one entry when n is 0
\* and n + 1 entries on the other two branches, so the wrapper's length is n
ListLength(nn) == nn

\* arrays_.py lines 9, 10
MAX_REGULAR_SIZE == 5
MAX_LIST_LENGTH == 5

\* arrays_.py lines 133-144: the sizes _regular_array_contents chooses from
ArraysGroupSizes(total_items) ==
    IF total_items = 0
    THEN 0..MAX_REGULAR_SIZE
    ELSE {d \in 1..(Min2(total_items + 1, MAX_REGULAR_SIZE + 1) - 1) :
            total_items % d = 0}

\* Python's sorted() on a list of integers, as an insertion sort
RECURSIVE Insert(_, _)
Insert(x, s) ==
    IF s = <<>> THEN <<x>>
    ELSE IF x <= Head(s) THEN <<x>> \o s
    ELSE <<Head(s)>> \o Insert(x, Tail(s))

RECURSIVE InsertionSort(_)
InsertionSort(s) == IF s = <<>> THEN <<>> ELSE Insert(Head(s), InsertionSort(Tail(s)))

\* the split points left in the order drawn
Unsorted(s) == s

\* list_offset_array.py lines 53-61
Sorted(s) == InsertionSort(s)

\* list_offset_array.py lines 55-59: a list of n - 1 integers in
\* [0, content_len], drawn only on the last branch
Splits(len, nn) ==
    IF nn = 0 \/ len = 0 THEN {<<>>} ELSE [1..(nn - 1) -> 0..len]

\* the offsets ended at the largest split point in place of the length
OffsetsListEndsAtSplit(len, nn, splits) ==
    IF nn = 0 THEN <<0>>
    ELSE IF len = 0 THEN [i \in 1..(nn + 1) |-> 0]
    ELSE <<0>> \o Sorted(splits)
             \o <<IF splits = <<>> THEN 0
                  ELSE Sorted(splits)[Len(splits)]>>

\* list_offset_array.py lines 48-62 (arrays_.py lines 157-171, 185-199)
OffsetsList(len, nn, splits) ==
    IF nn = 0 THEN <<0>>
    ELSE IF len = 0 THEN [i \in 1..(nn + 1) |-> 0]
    ELSE <<0>> \o Sorted(splits) \o <<len>>

\* arrays_.py lines 201, 202: offsets[:-1] and offsets[1:]
AllButLast(s) == SubSeq(s, 1, Len(s) - 1)
AllButFirst(s) == SubSeq(s, 2, Len(s))

WrapperType(name) ==
    CASE name = "regular" -> "RegularArray"
      [] name = "list_offset" -> "ListOffsetArray"
      [] name = "list" -> "ListArray"

\* the lengths of the wrappers a wrapper strategy draws over a child of
\* length child_len, with its default options
WrapperLengths(name, len) ==
    IF name = "regular"
    THEN {RegularLength(len, sz, z) :
            sz \in GroupSizes(len, DefaultMaxRegularSize),
            z \in 0..DefaultMaxZerosLength}
    ELSE {ListLength(nn) : nn \in 0..DefaultMaxLength}

(***************************************************************************)
(* strategies/contents/content.py: contents                                *)
(***************************************************************************)
\* draw.py lines 22-26: the defaults of CountdownDrawer
DefaultMinSizeEach == 0
DefaultMinSizeTotal == 0
DefaultMaxSizeTotal == 10
DefaultMaxDraws == 100

\* the list-offset wrapper enabled by allow_list in place of allow_list_offset
WrappersListOffsetByList(flags) ==
    {w \in {"regular", "list_offset", "list"} :
        \/ w = "regular" /\ flags.regular
        \/ w = "list_offset" /\ flags.list
        \/ w = "list" /\ flags.list}

\* content.py lines 88-94
Wrappers(flags) ==
    {w \in {"regular", "list_offset", "list"} :
        \/ w = "regular" /\ flags.regular
        \/ w = "list_offset" /\ flags.list_offset
        \/ w = "list" /\ flags.list}

\* the budget left at CountdownDrawer's default
LeafBudgetDefault(M) == DefaultMaxSizeTotal

\* line 109: max_size_total=max_size
LeafBudget(M) == M

\* the depth limit tested with > in place of >=
DepthReachedOffByOne(d, D) == d > D

\* line 118: depth >= max_depth
DepthReached(d, D) == d >= D

NoLeaf == [kind |-> "-", len |-> 0, nan |-> FALSE, path |-> "-",
           min_size |-> 0, max_size |-> 0]

\* lines 96-104: st_leaf is leaf_contents with allow_nan=allow_nan bound
StLeafAllowNan(an) == an

\* whether the leaf drawn from st_leaf(...) holds a NaN or NaT
StLeafNan(kind, len) ==
    NanOutcomes(kind, len, NumpyAllowNan(StLeafAllowNan(allow_nan), allow))

\* leaf.py lines 51-71: what a draw of st_leaf(min_size=lo, ...) comes to:
\* ValueError with no leaf kind allowed, a rejected example when st.one_of
\* has no option to choose from, a leaf otherwise
LeafOutcome(flags, lo) ==
    IF NoLeafAllowed(flags) THEN "raised"
    ELSE IF LeafOptions(flags, lo) = {} THEN "rejected"
    ELSE "ok"

\* the draw of a leaf fails: contents() ends without a content
LeafFails(outcome) ==
    /\ cpc' = outcome
    /\ UNCHANGED <<tree, content_len, leaf>>

\* _leaf() returns a leaf; _build(0) returns it as the content when no
\* _build call is waiting for its child
LeafDrawn(kind, len, nan, path, lo, hi) ==
    /\ leaf' = [kind |-> kind, len |-> len, nan |-> nan, path |-> path,
                min_size |-> lo, max_size |-> hi]
    /\ tree' = LeafNodes(kind)
    /\ content_len' = len
    /\ cpc' = IF depth = 0 THEN "done" ELSE "wrap"

\* lines 106-107: no wrapper is allowed or max_size is 0: one direct leaf
ContentsDirectLeaf ==
    /\ cpc = "start"
    /\ Wrappers(allow) = {} \/ max_size = 0
    /\ IF LeafOutcome(allow, 0) # "ok"
       THEN LeafFails(LeafOutcome(allow, 0))
       ELSE \E kind \in LeafOptions(allow, 0) :
              \E len \in LeafLengths(kind, 0, max_size) :
                \E nan \in StLeafNan(kind, len) :
                  LeafDrawn(kind, len, nan, "direct", 0, max_size)
    /\ UNCHANGED <<max_size, max_depth, allow, allow_nan, depth>>
    /\ UNCHANGED <<drawerVars, wrapperVars, unionVars, miscVars>>

\* line 109: the budgeted leaf drawer is created
ContentsCountdownDrawer ==
    /\ cpc = "start"
    /\ ~(Wrappers(allow) = {} \/ max_size = 0)
    /\ ConstructDrawer(DefaultMinSizeEach, NoneVal, DefaultMinSizeTotal,
                       LeafBudget(max_size), DefaultMaxDraws)
    /\ cpc' = "build"
    /\ UNCHANGED <<max_size, max_depth, allow, allow_nan, depth, tree,
                   content_len, leaf>>
    /\ UNCHANGED <<wrapperVars, unionVars, miscVars>>

\* lines 118-120: below max_depth the coin says descend
BuildDescend ==
    /\ cpc = "build"
    /\ ~DepthReached(depth, max_depth)
    /\ depth' = depth + 1
    /\ UNCHANGED <<max_size, max_depth, allow, allow_nan, cpc, tree,
                   content_len, leaf>>
    /\ UNCHANGED <<drawerVars, wrapperVars, unionVars, miscVars>>

\* lines 111-114, 118-119: at max_depth, or when the coin says so, _leaf()
\* gets a content from the budgeted drawer
BuildLeafBudgeted ==
    /\ cpc = "build"
    /\ ~ReturnsNone(n_draws, max_draws, Remaining, min_size_each)
    /\ IF LeafOutcome(allow, Request.min_size) # "ok"
       THEN /\ LeafFails(LeafOutcome(allow, Request.min_size))
            /\ UNCHANGED drawerVars
       ELSE \E kind \in LeafOptions(allow, Request.min_size) :
              \E len \in LeafLengths(kind, Request.min_size,
                                     Request.max_size) :
                \E nan \in StLeafNan(kind, len) :
                  /\ DrawContentValue(len)
                  /\ LeafDrawn(kind, len, nan, "budgeted",
                               Request.min_size, Request.max_size)
    /\ UNCHANGED <<max_size, max_depth, allow, allow_nan, depth>>
    /\ UNCHANGED <<wrapperVars, unionVars, miscVars>>

\* the fallback leaf drawn with the whole max_size
FallbackRequestWholeSize == [min_size |-> 0, max_size |-> max_size]

\* line 115: st_leaf(min_size=0, max_size=0)
FallbackRequest == [min_size |-> 0, max_size |-> 0]

\* lines 111-115, 118-119: the budgeted drawer returns None and _leaf()
\* draws a leaf of size zero
BuildLeafFallback ==
    /\ cpc = "build"
    /\ DrawContentNone
    /\ IF LeafOutcome(allow, FallbackRequest.min_size) # "ok"
       THEN LeafFails(LeafOutcome(allow, FallbackRequest.min_size))
       ELSE \E kind \in LeafOptions(allow, FallbackRequest.min_size) :
              \E len \in LeafLengths(kind, FallbackRequest.min_size,
                                     FallbackRequest.max_size) :
                \E nan \in StLeafNan(kind, len) :
                  LeafDrawn(kind, len, nan, "fallback",
                            FallbackRequest.min_size,
                            FallbackRequest.max_size)
    /\ UNCHANGED <<max_size, max_depth, allow, allow_nan, depth>>
    /\ UNCHANGED <<wrapperVars, unionVars, miscVars>>

\* lines 120-122: the child built, _build wraps it in a node of a type
\* sampled from the allowed wrappers and returns
BuildWrap ==
    /\ cpc = "wrap"
    /\ depth > 0
    /\ \E node_type \in Wrappers(allow) :
         /\ tree' = Append(tree, [type |-> WrapperType(node_type),
                                  parameter |-> "-"])
         /\ content_len' \in WrapperLengths(node_type, content_len)
    /\ depth' = depth - 1
    /\ cpc' = IF depth' = 0 THEN "done" ELSE "wrap"
    /\ UNCHANGED <<max_size, max_depth, allow, allow_nan, leaf>>
    /\ UNCHANGED <<drawerVars, wrapperVars, unionVars, miscVars>>

(***************************************************************************)
(* strategies/contents/union_array.py: union_array_contents                *)
(***************************************************************************)
\* line 17: max_contents
DefaultMaxContents == 4

RECURSIVE ConcatAll(_)
ConcatAll(parts) ==
    IF parts = <<>> THEN <<>> ELSE Head(parts) \o ConcatAll(Tail(parts))

\* lines 64-72: np.full(length, k) for each child k = 0, 1, ..., joined
TagsFlat(lens) ==
    ConcatAll([k \in 1..Len(lens) |-> [i \in 1..lens[k] |-> k - 1]])

\* the positions in each child counted from 1
IndexFlatFromOne(lens) ==
    ConcatAll([k \in 1..Len(lens) |-> [i \in 1..lens[k] |-> i]])

\* lines 65-73: np.arange(length) for each child, joined
IndexFlat(lens) ==
    ConcatAll([k \in 1..Len(lens) |-> [i \in 1..lens[k] |-> i - 1]])

\* line 77: tags_flat[list(perm)]
PermuteTags(a, perm) == [i \in 1..Len(a) |-> a[perm[i]]]

\* the index array left in the order of the children
IndexNotPermuted(a, perm) == a

\* line 78: index_flat[list(perm)]
PermuteIndex(a, perm) == [i \in 1..Len(a) |-> a[perm[i]]]

\* the arrays left at their full length
NotTruncated(a, ml) == a

\* lines 81-83: a[:max_length] when max_length is given and exceeded
Truncated(a, ml) ==
    IF ml # NoneVal /\ Len(a) > ml THEN SubSeq(a, 1, ml) ELSE a

\* lines 63-92: the tags and index arrays built over the children
BuildUnion(lens) ==
    IF lens # <<>>
    THEN \E perm \in Permutations(1..Len(TagsFlat(lens))) :
           /\ tags' = Truncated(PermuteTags(TagsFlat(lens), perm),
                                union_max_length)
           /\ index' = Truncated(PermuteIndex(IndexFlat(lens), perm),
                                 union_max_length)
    ELSE /\ tags' = <<>>
         /\ index' = <<>>

\* lines 88-92: the children are handed to awkward's UnionArray constructor
\* as they are, with no test of their number.  The constructor is not part of
\* the repository: over fewer than 2 children it returns the union or raises
\* an error.  No path of the function rejects the example here.
UnionArrayOutcomes(lens) ==
    IF Len(lens) >= 2 THEN {"done"} ELSE {"done", "raised"}

\* the lists of at least min_n and at most max_n children whose lengths add
\* up to at most total
ChildLists(min_n, max_n, total) ==
    {lens \in UNION {[1..k -> 0..total] : k \in min_n..max_n} :
        SumSeq(lens) <= total}

(***************************************************************************)
(* strategies/misc/record.py: RecordDraws, RecordCallDraws, OptsChain      *)
(***************************************************************************)
Range(s) == {s[i] : i \in 1..Len(s)}

\* lines 27-30: RecordDraws(base): a new recorder with an empty list drawn;
\* by is the RecordCallDraws that creates it (0: none)
NewRecorder(by) ==
    /\ drawn' = Append(drawn, <<>>)
    /\ owner' = Append(owner, by)
    /\ base_values' = Append(base_values, <<>>)
    /\ returned' = Append(returned, <<>>)
    /\ since_reset' = Append(since_reset, NoneVal)

\* the value put at the front of the list
DoDrawAppendFront(d, value) == <<value>> \o d

\* line 34: self.drawn.append(value)
DoDrawAppend(d, value) == Append(d, value)

\* line 35: return value
DoDrawReturn(value) == value

\* lines 32-35: do_draw of the recorder id, whose base strategy produces v
DoDraw(id, v) ==
    /\ id \in 1..Len(drawn)
    /\ drawn' = [drawn EXCEPT ![id] = DoDrawAppend(@, v)]
    /\ base_values' = [base_values EXCEPT ![id] = Append(@, v)]
    /\ returned' = [returned EXCEPT ![id] = Append(@, DoDrawReturn(v))]
    /\ call_log' =
         IF owner[id] = 0 THEN call_log
         ELSE [call_log EXCEPT ![owner[id]] =
                  Append(@, [recorder |-> id, value |-> DoDrawReturn(v)])]
    /\ since_reset' = [since_reset EXCEPT
                         ![id] = IF @ = NoneVal THEN @ ELSE @ + 1]
    /\ n_do_draws' = n_do_draws + 1
    /\ UNCHANGED <<chains, call_recorders, owner, registered, reset_mark>>

\* RecordDraws(base) constructed directly
NewRecordDraws ==
    /\ NewRecorder(0)
    /\ UNCHANGED <<chains, call_recorders, call_log, registered, n_do_draws,
                   reset_mark>>

\* lines 62-64: RecordCallDraws(base) constructed directly
NewRecordCallDraws ==
    /\ call_recorders' = Append(call_recorders, <<>>)
    /\ call_log' = Append(call_log, <<>>)
    /\ reset_mark' = Append(reset_mark, 0)
    /\ UNCHANGED <<drawn, chains, owner, base_values, returned, registered,
                   since_reset, n_do_draws>>

\* the new recorder put at the front of the list
CallAppendFront(recs, id) == <<id>> \o recs

\* line 68: self._recorders.append(recorder)
CallAppend(recs, id) == Append(recs, id)

\* lines 66-69: RecordCallDraws.__call__
Call(k) ==
    /\ k \in 1..Len(call_recorders)
    /\ NewRecorder(k)
    /\ call_recorders' =
         [call_recorders EXCEPT ![k] = CallAppend(@, Len(drawn) + 1)]
    /\ UNCHANGED <<chains, call_log, registered, n_do_draws,
                   reset_mark>>

\* lines 71-74: RecordCallDraws.drawn
CallDrawn(k) ==
    ConcatAll([i \in 1..Len(call_recorders[k]) |->
                  drawn[call_recorders[k][i]]])

\* lines 76-78: RecordCallDraws.reset
CallReset(k) ==
    /\ k \in 1..Len(call_recorders)
    /\ call_recorders' = [call_recorders EXCEPT ![k] = <<>>]
    /\ call_log' = [call_log EXCEPT ![k] = <<>>]
    /\ reset_mark' = [reset_mark EXCEPT ![k] = Len(drawn)]
    /\ UNCHANGED <<drawn, chains, owner, base_values, returned, registered,
                   since_reset, n_do_draws>>

\* lines 99-109: OptsChain(kwargs)
NewOptsChain ==
    /\ chains' = Append(chains, [recorders |-> <<>>,
                                 callable_recorders |-> <<>>])
    /\ UNCHANGED <<drawn, call_recorders, owner, base_values, returned,
                   call_log, registered, since_reset, n_do_draws,
                   reset_mark>>

\* lines 119-123: OptsChain.register
Register(c) ==
    /\ c \in 1..Len(chains)
    /\ NewRecorder(0)
    /\ chains' = [chains EXCEPT ![c].recorders = Append(@, Len(drawn) + 1)]
    /\ registered' = registered \cup {<<c, Len(drawn) + 1>>}
    /\ UNCHANGED <<call_recorders, call_log, n_do_draws,
                   reset_mark>>

\* lines 125-131: OptsChain.register_callable
RegisterCallable(c) ==
    /\ c \in 1..Len(chains)
    /\ call_recorders' = Append(call_recorders, <<>>)
    /\ call_log' = Append(call_log, <<>>)
    /\ reset_mark' = Append(reset_mark, 0)
    /\ chains' = [chains EXCEPT ![c].callable_recorders =
                     Append(@, Len(call_recorders) + 1)]
    /\ UNCHANGED <<drawn, owner, base_values, returned, registered,
                   since_reset, n_do_draws>>

\* lines 133-139: OptsChain.extend: a new chain with copies of the two lists
Extend(c) ==
    /\ c \in 1..Len(chains)
    /\ chains' = Append(chains, [recorders |-> chains[c].recorders,
                                 callable_recorders |->
                                     chains[c].callable_recorders])
    /\ registered' = registered \cup
                       {<<Len(chains) + 1, id>> : id \in Range(chains[c].recorders)}
    /\ UNCHANGED <<drawn, call_recorders, owner, base_values, returned,
                   call_log, since_reset, n_do_draws,
                   reset_mark>>

\* the lists drawn left as they are
ResetDrawnUntouched(d, recs, id) == d

\* lines 143-144: r.drawn.clear() for every r in self._recorders
ResetDrawn(d, recs, id) == IF id \in Range(recs) THEN <<>> ELSE d

\* lines 141-146: OptsChain.reset
Reset(c) ==
    /\ c \in 1..Len(chains)
    /\ drawn' = [id \in 1..Len(drawn) |->
                    ResetDrawn(drawn[id], chains[c].recorders, id)]
    /\ base_values' = [id \in 1..Len(drawn) |->
                          IF drawn'[id] = <<>> THEN <<>> ELSE base_values[id]]
    /\ returned' = [id \in 1..Len(drawn) |->
                       IF drawn'[id] = <<>> THEN <<>> ELSE returned[id]]
    /\ call_recorders' =
         [k \in 1..Len(call_recorders) |->
             IF k \in Range(chains[c].callable_recorders) THEN <<>>
             ELSE call_recorders[k]]
    /\ call_log' =
         [k \in 1..Len(call_log) |->
             IF k \in Range(chains[c].callable_recorders) THEN <<>>
             ELSE call_log[k]]
    /\ since_reset' = [id \in 1..Len(drawn) |->
                          IF <<c, id>> \in registered THEN 0
                          ELSE since_reset[id]]
    /\ reset_mark' =
         [k \in 1..Len(reset_mark) |->
             IF k \in Range(chains[c].callable_recorders) THEN Len(drawn)
             ELSE reset_mark[k]]
    /\ UNCHANGED <<chains, owner, registered, n_do_draws>>

(***************************************************************************)
(* strategies/misc: ranges                                                 *)
(***************************************************************************)
MaxRangeValueBound == 3

\* util.safe.safe_max over a pair: the maximum of the values that are not None
safe_max(a, b) ==
    IF a = NoneVal THEN b ELSE IF b = NoneVal THEN a ELSE Max2(a, b)

\* st_(min_value=lo, max_value=hi): the values of the domain within the
\* bounds that are given
ValuesWithin(lo, hi) ==
    {v \in 0..MaxRangeValueBound :
        /\ lo # NoneVal => lo <= v
        /\ hi # NoneVal => v <= hi}

\* start is absent (if allowed) or within [min_start, max_start]
StartOptions ==
    ValuesWithin(min_start, max_start)
        \cup (IF allow_start_none THEN {NoneVal} ELSE {})

\* the lower bound of end: the greatest of min_start, start and min_end
EndMin(s) == safe_max(safe_max(min_start, s), min_end)

\* the values of end taken without regard to allow_equal
EndValuesEqualAlways(s) == ValuesWithin(EndMin(s), max_end)

\* end lies within [max(min_start, min_end), max_end], at or above start,
\* and above start when equality is disallowed
EndValues(s) ==
    {v \in ValuesWithin(EndMin(s), max_end) :
        s = NoneVal \/ allow_equal \/ v > s}

\* end is absent if allowed, and forced absent when start is absent and
\* let_end_none_if_start_none is set
EndOptions(s) ==
    IF s = NoneVal /\ let_end_none_if_start_none THEN {NoneVal}
    ELSE EndValues(s) \cup (IF allow_end_none THEN {NoneVal} ELSE {})

\* start is drawn
RangesDrawStart ==
    /\ rpc = "new"
    /\ start' \in StartOptions
    /\ rpc' = "start_drawn"
    /\ UNCHANGED <<min_start, max_start, min_end, max_end, allow_start_none,
                   allow_end_none, let_end_none_if_start_none, allow_equal,
                   end>>

\* end is drawn and the pair returned
RangesDrawEnd ==
    /\ rpc = "start_drawn"
    /\ end' \in EndOptions(start)
    /\ rpc' = "done"
    /\ UNCHANGED <<min_start, max_start, min_end, max_end, allow_start_none,
                   allow_end_none, let_end_none_if_start_none, allow_equal,
                   start>>

\* the bounds leave no value to draw: no pair is produced
RangesFails ==
    /\ \/ rpc = "new" /\ StartOptions = {}
       \/ rpc = "start_drawn" /\ EndOptions(start) = {}
    /\ rpc' = "failed"
    /\ UNCHANGED <<min_start, max_start, min_end, max_end, allow_start_none,
                   allow_end_none, let_end_none_if_start_none, allow_equal,
                   start, end>>

(***************************************************************************)
(* Components that a specification leaves out stay idle                    *)
(***************************************************************************)
IdleDrawer ==
    /\ min_size_each = 0
    /\ max_size_each = NoneVal
    /\ min_size_total = 0
    /\ max_size_total_arg = 0
    /\ max_size_total = 0
    /\ max_draws = 0
    /\ size_total = 0
    /\ n_draws = 0
    /\ dpc = "idle"
    /\ results = <<>>
    /\ n_none = 0
    /\ last = NoCall

IdleContents ==
    /\ max_size = 0
    /\ max_depth = 0
    /\ allow = [f \in {"numpy"} |-> FALSE]
    /\ allow_nan = FALSE
    /\ cpc = "idle"
    /\ depth = 0
    /\ tree = <<>>
    /\ content_len = 0
    /\ leaf = NoLeaf

\* no object: the wrapper has not been built
NoObject == [from |-> "-", k |-> 0]

IdleWrappers ==
    /\ child_len = 0
    /\ max_length = 0
    /\ regular_max_size = 0
    /\ max_zeros_length = 0
    /\ fn = "idle"
    /\ n = 0
    /\ size = NoneVal
    /\ zeros_length = NoneVal
    /\ offsets = <<>>
    /\ starts = <<>>
    /\ stops = <<>>
    /\ wlen = 0
    /\ content_arg = "idle"
    /\ content_drawn = <<>>
    /\ result_content = NoObject

IdleUnion ==
    /\ mode = "idle"
    /\ max_contents = 0
    /\ union_max_length = NoneVal
    /\ upc = "idle"
    /\ children = <<>>
    /\ tags = <<>>
    /\ index = <<>>

IdleLeaf ==
    /\ leaf_min_size = 0
    /\ leaf_max_size = 0
    /\ leaf_allow_nan = FALSE
    /\ leaf_allow = [f \in {"numpy"} |-> FALSE]
    /\ lpc = "idle"
    /\ leaf_draws = 0
    /\ leaf_result = NoLeafResult

IdleRecord ==
    /\ drawn = <<>>
    /\ chains = <<>>
    /\ call_recorders = <<>>
    /\ owner = <<>>
    /\ base_values = <<>>
    /\ returned = <<>>
    /\ call_log = <<>>
    /\ registered = {}
    /\ since_reset = <<>>
    /\ n_do_draws = 0
    /\ reset_mark = <<>>

IdleRange ==
    /\ min_start = NoneVal
    /\ max_start = NoneVal
    /\ min_end = NoneVal
    /\ max_end = NoneVal
    /\ allow_start_none = TRUE
    /\ allow_end_none = TRUE
    /\ let_end_none_if_start_none = FALSE
    /\ allow_equal = TRUE
    /\ rpc = "idle"
    /\ start = NoneVal
    /\ end = NoneVal

IdleMisc == IdleLeaf /\ IdleRecord /\ IdleRange

(***************************************************************************)
(* The drawer on its own: tests/util/test_draw.py, _exhaust               *)
(***************************************************************************)
InitDrawer ==
    /\ min_size_each \in 0..MaxEachBound
    /\ max_size_each \in {NoneVal} \cup 0..MaxEachBound
    /\ min_size_total \in 0..MaxTotalBound
    /\ max_size_total_arg \in 0..MaxTotalBound
    /\ max_draws \in 0..MaxDrawsBound
    /\ max_size_total = max_size_total_arg
    /\ size_total = 0
    /\ n_draws = 0
    /\ dpc = "new"
    /\ results = <<>>
    /\ n_none = 0
    /\ last = NoCall
    /\ IdleContents
    /\ IdleWrappers
    /\ IdleUnion
    /\ IdleMisc

Construct ==
    /\ dpc = "new"
    /\ ConstructDrawer(min_size_each, max_size_each, min_size_total,
                       max_size_total_arg, max_draws)
    /\ UNCHANGED <<contentsVars, wrapperVars, unionVars, miscVars>>

\* line 62: st.integers(min_value, max_value) with min_value > max_value
ConstructInvalid ==
    /\ dpc = "new"
    /\ MinFloor(min_size_each, max_size_each, min_size_total)
           > max_size_total_arg
    /\ dpc' = "invalid"
    /\ UNCHANGED <<min_size_each, max_size_each, min_size_total,
                   max_size_total_arg, max_size_total, max_draws, size_total,
                   n_draws, results, n_none, last>>
    /\ UNCHANGED <<contentsVars, wrapperVars, unionVars, miscVars>>

DrawValue ==
    /\ \E len \in 0..MaxTotalBound : DrawContentValue(len)
    /\ UNCHANGED <<contentsVars, wrapperVars, unionVars, miscVars>>

DrawNone ==
    /\ DrawContentNone
    /\ UNCHANGED <<contentsVars, wrapperVars, unionVars, miscVars>>

DrawRaise ==
    /\ DrawContentRaise
    /\ UNCHANGED <<contentsVars, wrapperVars, unionVars, miscVars>>

NextDrawer ==
    \/ Construct
    \/ ConstructInvalid
    \/ DrawValue
    \/ DrawNone
    \/ DrawRaise

SpecDrawer == InitDrawer /\ [][NextDrawer]_vars

\* _exhaust calls the draw function again and again: while a call is
\* possible, a call is made
SpecDrawerLive == SpecDrawer /\ WF_vars(NextDrawer)

(***************************************************************************)
(* contents() called once                                                  *)
(***************************************************************************)
MaxSizeBound == 2
MaxDepthBound == 2

AllowFlags == {"numpy", "empty", "string", "bytestring", "regular",
               "list_offset", "list"}

InitContents ==
    /\ max_size \in 0..MaxSizeBound
    /\ max_depth \in -1..MaxDepthBound
    /\ allow \in [AllowFlags -> BOOLEAN]
    /\ allow_nan \in BOOLEAN
    /\ cpc = "start"
    /\ depth = 0
    /\ tree = <<>>
    /\ content_len = 0
    /\ leaf = NoLeaf
    /\ IdleDrawer
    /\ IdleWrappers
    /\ IdleUnion
    /\ IdleMisc

NextContents ==
    \/ ContentsDirectLeaf
    \/ ContentsCountdownDrawer
    \/ BuildDescend
    \/ BuildLeafBudgeted
    \/ BuildLeafFallback
    \/ BuildWrap

SpecContents == InitContents /\ [][NextContents]_vars

\* contents() is one sequential call: while a step of it is possible, a
\* step is taken
SpecContentsLive == SpecContents /\ WF_vars(NextContents)

(***************************************************************************)
(* The structural wrapper strategies, each drawn from once over a child    *)
(* content of a given length                                               *)
(***************************************************************************)
MaxChildLenBound == 4
MaxLengthBound == 3

\* the Content object passed as the content argument
GivenContent == [from |-> "Content", k |-> 0]

\* the object drawn from contents() when the content argument is None
ContentsDrawn == [from |-> "contents()", k |-> 1]

\* a draw that draws twice from the strategy given and keeps the second
DrawFromTwice(d) ==
    Append(Append(d, [from |-> "strategy", k |-> Len(d) + 1]),
           [from |-> "strategy", k |-> Len(d) + 2])

\* draw(content): the strategy given yields a new object at each draw, the
\* k-th draw the object k, and a RecordDraws lists it in drawn
DrawFrom(d) == Append(d, [from |-> "strategy", k |-> Len(d) + 1])

\* list_offset_array.py lines 38-45, regular_array.py lines 34-41: the
\* content argument resolved to the Content the wrapper is built over
ResolveContent ==
    CASE content_arg = "None" ->
           /\ result_content' = ContentsDrawn
           /\ UNCHANGED content_drawn
      [] content_arg = "strategy" ->
           /\ content_drawn' = DrawFrom(content_drawn)
           /\ result_content' = content_drawn'[Len(content_drawn')]
      [] content_arg = "Content" ->
           /\ result_content' = GivenContent
           /\ UNCHANGED content_drawn

\* arrays_.py lines 131, 154, 185: content = draw(contents)
ArraysDrawContent ==
    /\ content_arg = "strategy"
    /\ content_drawn' = DrawFrom(content_drawn)
    /\ result_content' = content_drawn'[Len(content_drawn')]

\* one of the list wrappers draws n and the split points and builds offsets
DrawOffsets(max_n) ==
    \E nn \in 0..max_n :
      \E splits \in Splits(child_len, nn) :
        /\ n' = nn
        /\ offsets' = OffsetsList(child_len, nn, splits)

\* list_offset_array.py lines 38-64: list_offset_array_contents
ListOffsetArrayContents ==
    /\ fn = "-"
    /\ fn' = "list_offset_array_contents"
    /\ ResolveContent
    /\ DrawOffsets(max_length)
    /\ wlen' = Len(offsets') - 1
    /\ UNCHANGED <<content_arg, child_len, max_length, regular_max_size,
                   max_zeros_length,
                   size, zeros_length, starts, stops>>
    /\ UNCHANGED <<drawerVars, contentsVars, unionVars, miscVars>>

\* arrays_.py lines 154-173: _list_offset_array_contents
ArraysListOffsetArrayContents ==
    /\ fn = "-"
    /\ fn' = "_list_offset_array_contents"
    /\ ArraysDrawContent
    /\ DrawOffsets(MAX_LIST_LENGTH)
    /\ wlen' = Len(offsets') - 1
    /\ UNCHANGED <<content_arg, child_len, max_length, regular_max_size,
                   max_zeros_length,
                   size, zeros_length, starts, stops>>
    /\ UNCHANGED <<drawerVars, contentsVars, unionVars, miscVars>>

\* arrays_.py lines 182-203: _list_array_contents
ArraysListArrayContents ==
    /\ fn = "-"
    /\ fn' = "_list_array_contents"
    /\ ArraysDrawContent
    /\ DrawOffsets(MAX_LIST_LENGTH)
    /\ starts' = AllButLast(offsets')
    /\ stops' = AllButFirst(offsets')
    /\ wlen' = Len(starts')
    /\ UNCHANGED <<content_arg, child_len, max_length, regular_max_size,
                   max_zeros_length,
                   size, zeros_length>>
    /\ UNCHANGED <<drawerVars, contentsVars, unionVars, miscVars>>

\* regular_array.py lines 42-46: regular_array_contents
RegularArrayContents ==
    /\ fn = "-"
    /\ fn' = "regular_array_contents"
    /\ ResolveContent
    /\ \E sz \in GroupSizes(child_len, regular_max_size) :
         /\ size' = sz
         /\ zeros_length' \in ZerosLengths(sz, max_zeros_length)
    /\ wlen' = RegularLength(child_len, size', zeros_length')
    /\ UNCHANGED <<content_arg, child_len, max_length, regular_max_size,
                   max_zeros_length,
                   n, offsets, starts, stops>>
    /\ UNCHANGED <<drawerVars, contentsVars, unionVars, miscVars>>

\* arrays_.py lines 131-145: _regular_array_contents
ArraysRegularArrayContents ==
    /\ fn = "-"
    /\ fn' = "_regular_array_contents"
    /\ ArraysDrawContent
    /\ \E sz \in ArraysGroupSizes(child_len) :
         /\ size' = sz
         /\ IF child_len = 0 /\ sz = 0
            THEN zeros_length' \in 0..MAX_REGULAR_SIZE
            ELSE zeros_length' = NoneVal
    /\ wlen' = RegularLength(child_len, size', zeros_length')
    /\ UNCHANGED <<content_arg, child_len, max_length, regular_max_size,
                   max_zeros_length,
                   n, offsets, starts, stops>>
    /\ UNCHANGED <<drawerVars, contentsVars, unionVars, miscVars>>

InitWrappers ==
    /\ child_len \in 0..MaxChildLenBound
    /\ max_length \in 0..MaxLengthBound
    /\ regular_max_size \in 0..MaxChildLenBound
    /\ max_zeros_length \in 0..MaxLengthBound
    /\ fn = "-"
    /\ n = 0
    /\ size = NoneVal
    /\ zeros_length = NoneVal
    /\ offsets = <<>>
    /\ starts = <<>>
    /\ stops = <<>>
    /\ wlen = 0
    /\ content_arg \in {"None", "strategy", "Content"}
    /\ content_drawn = <<>>
    /\ result_content = NoObject
    /\ IdleDrawer
    /\ IdleContents
    /\ IdleUnion
    /\ IdleMisc

NextWrappers ==
    \/ ListOffsetArrayContents
    \/ ArraysListOffsetArrayContents
    \/ ArraysListArrayContents
    \/ RegularArrayContents
    \/ ArraysRegularArrayContents

SpecWrappers == InitWrappers /\ [][NextWrappers]_vars

(***************************************************************************)
(* union_array_contents drawn from once                                    *)
(***************************************************************************)
MaxContentsBound == 3
MaxUnionTotalBound == 5

\* lines 47-54: content_lists draws between 2 and max_contents children
FreshChildren == ChildLists(2, max_contents, MaxUnionTotalBound)

\* a list of Content given as it is, or drawn from the strategy given
GivenChildren == ChildLists(0, MaxContentsBound, MaxUnionTotalBound)

\* lines 46-56, 63-92: contents is None; the children are drawn and the
\* example is rejected when they exceed max_length
UnionFromNone ==
    /\ upc = "start"
    /\ mode = "None"
    /\ \E lens \in FreshChildren :
         /\ children' = lens
         /\ IF union_max_length # NoneVal
               /\ ~(SumSeq(lens) <= union_max_length)
            THEN /\ upc' = "rejected"
                 /\ UNCHANGED <<tags, index>>
            ELSE /\ upc' \in UnionArrayOutcomes(lens)
                 /\ BuildUnion(lens)
    /\ UNCHANGED <<mode, max_contents, union_max_length>>
    /\ UNCHANGED <<drawerVars, contentsVars, wrapperVars,
                   miscVars>>

\* lines 57-58, 63-92: contents is a strategy, drawn from once
UnionFromStrategy ==
    /\ upc = "start"
    /\ mode = "strategy"
    /\ \E lens \in GivenChildren :
         /\ children' = lens
         /\ BuildUnion(lens)
         /\ upc' \in UnionArrayOutcomes(lens)
    /\ UNCHANGED <<mode, max_contents, union_max_length>>
    /\ UNCHANGED <<drawerVars, contentsVars, wrapperVars,
                   miscVars>>

\* lines 59-60, 63-92: contents is a list
UnionFromList ==
    /\ upc = "start"
    /\ mode = "list"
    /\ BuildUnion(children)
    /\ upc' \in UnionArrayOutcomes(children)
    /\ UNCHANGED <<mode, max_contents, union_max_length, children>>
    /\ UNCHANGED <<drawerVars, contentsVars, wrapperVars,
                   miscVars>>

InitUnion ==
    /\ mode \in {"None", "strategy", "list"}
    /\ max_contents \in IF mode = "None" THEN 2..MaxContentsBound
                        ELSE {DefaultMaxContents}
    /\ union_max_length \in {NoneVal} \cup 0..MaxLengthBound
    /\ upc = "start"
    /\ children \in IF mode = "list" THEN GivenChildren ELSE {<<>>}
    /\ tags = <<>>
    /\ index = <<>>
    /\ IdleDrawer
    /\ IdleContents
    /\ IdleWrappers
    /\ IdleMisc

NextUnion ==
    \/ UnionFromNone
    \/ UnionFromStrategy
    \/ UnionFromList

SpecUnion == InitUnion /\ [][NextUnion]_vars

(***************************************************************************)
(* leaf_contents called once and the strategy it returns drawn from once:  *)
(* tests/strategies/contents/test_leaf.py                                  *)
(***************************************************************************)
MaxLeafSizeBound == 3

LeafFlags == {"numpy", "empty", "string", "bytestring"}

\* test_leaf.py lines 31-33: 0 <= min_size <= max_size
InitLeaf ==
    /\ leaf_min_size \in 0..MaxLeafSizeBound
    /\ leaf_max_size \in leaf_min_size..MaxLeafSizeBound
    /\ leaf_allow_nan \in BOOLEAN
    /\ leaf_allow \in [LeafFlags -> BOOLEAN]
    /\ lpc = "start"
    /\ leaf_draws = 0
    /\ leaf_result = NoLeafResult
    /\ IdleDrawer
    /\ IdleContents
    /\ IdleWrappers
    /\ IdleUnion
    /\ IdleRecord
    /\ IdleRange

NextLeaf ==
    \/ LeafContentsRaise /\ UNCHANGED <<builderVars, recordVars, rangeVars>>
    \/ LeafContentsReturn /\ UNCHANGED <<builderVars, recordVars, rangeVars>>
    \/ LeafContentsDraw /\ UNCHANGED <<builderVars, recordVars, rangeVars>>
    \/ LeafContentsDrawRejected /\ UNCHANGED <<builderVars, recordVars, rangeVars>>

SpecLeaf == InitLeaf /\ [][NextLeaf]_vars

(***************************************************************************)
(* The recorders used as the tests use them: any interleaving of           *)
(* constructions, registrations, factory calls, draws and resets           *)
(***************************************************************************)
MaxObjectsBound == 4
MaxDoDrawsBound == 3

\* the recorders and chains constructed so far
NObjects == Len(drawn) + Len(chains) + Len(call_recorders)

\* the values the wrapped strategies produce
RecordValues == {"a", "b"}

InitRecord ==
    /\ drawn = <<>>
    /\ chains = <<>>
    /\ call_recorders = <<>>
    /\ owner = <<>>
    /\ base_values = <<>>
    /\ returned = <<>>
    /\ call_log = <<>>
    /\ registered = {}
    /\ since_reset = <<>>
    /\ n_do_draws = 0
    /\ reset_mark = <<>>
    /\ IdleDrawer
    /\ IdleContents
    /\ IdleWrappers
    /\ IdleUnion
    /\ IdleLeaf
    /\ IdleRange

NextRecord ==
    \/ /\ NObjects < MaxObjectsBound
       /\ \/ NewRecordDraws
          \/ \E c \in 1..Len(chains) : Register(c)
          \/ \E k \in 1..Len(call_recorders) : Call(k)
          \/ NewRecordCallDraws
          \/ \E c \in 1..Len(chains) : RegisterCallable(c)
          \/ NewOptsChain
          \/ \E c \in 1..Len(chains) : Extend(c)
       /\ UNCHANGED <<builderVars, leafVars, rangeVars>>
    \/ /\ n_do_draws < MaxDoDrawsBound
       /\ \E id \in 1..Len(drawn) : \E v \in RecordValues : DoDraw(id, v)
       /\ UNCHANGED <<builderVars, leafVars, rangeVars>>
    \/ /\ \E c \in 1..Len(chains) : Reset(c)
       /\ UNCHANGED <<builderVars, leafVars, rangeVars>>
    \/ /\ \E k \in 1..Len(call_recorders) : CallReset(k)
       /\ UNCHANGED <<builderVars, leafVars, rangeVars>>

SpecRecord == InitRecord /\ [][NextRecord]_vars

(***************************************************************************)
(* ranges() drawn from once: tests/strategies/misc/test_ranges.py          *)
(***************************************************************************)
OptionalValues == {NoneVal} \cup 0..MaxRangeValueBound

InitRanges ==
    /\ min_start \in OptionalValues
    /\ max_start \in OptionalValues
    /\ min_end \in OptionalValues
    /\ max_end \in OptionalValues
    /\ allow_start_none \in BOOLEAN
    /\ allow_end_none \in BOOLEAN
    /\ let_end_none_if_start_none \in BOOLEAN
    /\ allow_equal \in BOOLEAN
    /\ rpc = "new"
    /\ start = NoneVal
    /\ end = NoneVal
    /\ IdleDrawer
    /\ IdleContents
    /\ IdleWrappers
    /\ IdleUnion
    /\ IdleLeaf
    /\ IdleRecord

NextRanges ==
    \/ RangesDrawStart /\ UNCHANGED <<builderVars, leafVars, recordVars>>
    \/ RangesDrawEnd /\ UNCHANGED <<builderVars, leafVars, recordVars>>
    \/ RangesFails /\ UNCHANGED <<builderVars, leafVars, recordVars>>

SpecRanges == InitRanges /\ [][NextRanges]_vars

(***************************************************************************)
(* Claims about CountdownDrawer, checked under SpecDrawer                  *)
(***************************************************************************)

\* the configuration is consistent: 0 <= min_size_each <= max_size_each when
\* max_size_each is given, min_size_total <= max_size_total, max_draws >= 1
ConsistentConfig ==
    /\ max_size_each # NoneVal => min_size_each <= max_size_each
    /\ min_size_total <= max_size_total_arg
    /\ max_draws >= 1

\* max_draws draws of at most max_size_each elements can hold min_size_total
ReachableMinTotal ==
    max_size_each # NoneVal => max_draws * max_size_each >= min_size_total

\* C1: after any sequence of calls, the sum of the lengths of the values
\* returned is at most the sampled budget, which is at most the configured
\* max_size_total.
C1_SumWithinBudget ==
    /\ SumSeq(results) <= max_size_total
    /\ max_size_total <= max_size_total_arg

C1_Witness ==
    /\ dpc = "ready"
    /\ Len(results) >= 2
    /\ SumSeq(results) = max_size_total
    /\ max_size_total = max_size_total_arg
    /\ max_size_total >= 3

\* C2: for every consistent configuration constructed without error, when
\* the draw function returns None the sum of the lengths drawn is at least
\* min_size_total.  Stated for the configurations in which the claim can be
\* met at all: max_draws draws of at most max_size_each elements can hold
\* min_size_total.
C2_MinTotalReached ==
    (dpc = "ready" /\ ConsistentConfig /\ ReachableMinTotal
       /\ last.ret = "None")
        => SumSeq(results) >= min_size_total

\* C3: every value returned was requested with bounds
\* min_size_each <= effective_min <= max_size <= max_size_each (when
\* max_size_each is given and min_size_each <= max_size_each), so its length
\* lies in [min_size_each, max_size_each].
C3_EachWithinBounds ==
    (last.ret = "value"
       /\ (max_size_each # NoneVal => min_size_each <= max_size_each))
        => /\ min_size_each <= last.min_size
           /\ last.min_size <= last.max_size
           /\ max_size_each # NoneVal => last.max_size <= max_size_each
           /\ min_size_each <= last.len
           /\ max_size_each # NoneVal => last.len <= max_size_each

C3_Witness ==
    /\ last.ret = "value"
    /\ max_size_each # NoneVal
    /\ 0 < min_size_each
    /\ min_size_each < max_size_each
    /\ last.min_size > min_size_each
    /\ last.max_size < max_size_each
    /\ Len(results) >= 2

\* C4: after any sequence of calls, the number of calls that returned a
\* value is at most max_draws.
C4_DrawsWithinLimit == Len(results) <= max_draws

C4_Witness ==
    /\ dpc = "ready"
    /\ max_draws >= 2
    /\ Len(results) = max_draws
    /\ last.ret = "None"
    /\ SumSeq(results) < max_size_total

\* the condition of the claim, at the time of the call: the draw limit is
\* reached, or the remaining budget is spent or below min_size_each
ExhaustedAtCall ==
    \/ n_draws >= max_draws
    \/ max_size_total - size_total <= 0
    \/ max_size_total - size_total < min_size_each

\* C21: a call of the draw function returns None exactly when, at call
\* time, n_draws >= max_draws, or the remaining budget is <= 0, or it is
\* below min_size_each; a call that returns None draws nothing from the
\* wrapped strategy and leaves size_total and n_draws as they were; a call
\* that returns a value adds 1 to n_draws and the length of the value to
\* size_total.
C21_NoneExactlyWhenExhausted ==
    [][dpc = "ready"
         => /\ ExhaustedAtCall
                 => /\ last'.ret = "None"
                    /\ UNCHANGED <<size_total, n_draws, results>>
            /\ last'.ret = "None" => ExhaustedAtCall
            /\ (~ExhaustedAtCall /\ dpc' = "ready")
                 => /\ last'.ret = "value"
                    /\ results' = Append(results, last'.len)
                    /\ n_draws' = n_draws + 1
                    /\ size_total' = size_total + last'.len]_vars

C21_Witness ==
    /\ dpc = "ready"
    /\ last.ret = "None"
    /\ Len(results) = 2
    /\ n_draws < max_draws
    /\ max_size_total - size_total > 0
    /\ max_size_total - size_total < min_size_each

\* C22: the drawer never deadlocks on an unreachable per-draw minimum: for
\* a configuration with min_size_each > 0 constructed without error, no
\* reachable state has draws left (n_draws < max_draws), a deficit
\* (size_total < min_size_total) and a remaining budget below
\* min_size_each.  Stated, as C2 is, for the consistent configurations in
\* which max_draws draws of at most max_size_each can hold min_size_total.
C22_NoDeadlockOnMinEach ==
    (dpc = "ready" /\ min_size_each > 0 /\ ConsistentConfig
       /\ ReachableMinTotal)
        => ~(/\ n_draws < max_draws
             /\ size_total < min_size_total
             /\ max_size_total - size_total < min_size_each)

\* C27: exhaustion is absorbing: once a call of the draw function has
\* returned None, the drawer is in a state in which a call returns None,
\* and every later call returns None and leaves the drawer as it is, for
\* every configuration and every sequence of earlier draws.
C27_ExhaustionAbsorbing ==
    /\ [](n_none >= 1 => (last.ret = "None" /\ ExhaustedAtCall))
    /\ [][n_none >= 1
            => /\ last'.ret = "None"
               /\ n_none' = n_none + 1
               /\ UNCHANGED <<size_total, n_draws, results,
                              max_size_total>>]_vars

C27_Witness ==
    /\ dpc = "ready"
    /\ n_none = 2
    /\ last.ret = "None"
    /\ results = <<0, 2, 1>>
    /\ n_draws = max_draws
    /\ size_total < max_size_total

\* min_size_each is at most max_size_each when max_size_each is given
EachConsistent ==
    max_size_each # NoneVal => min_size_each <= max_size_each

TotalLeafElements == leaf.len

\* the wrapper layers of the tree, the ListOffsetArray of a string or
\* bytestring leaf not counted
WrapperDepth ==
    Cardinality({i \in 1..Len(tree) :
        /\ tree[i].type \in {"RegularArray", "ListOffsetArray", "ListArray"}
        /\ tree[i].parameter \notin {"string", "bytestring"}})

\* C5: the total number of leaf elements of a content produced by
\* contents(max_size=M) is at most M, for every combination of flags and
\* every max_depth, whether the leaf was drawn directly, from the budgeted
\* drawer, or as the zero-size fallback.
C5_LeafElementsWithinMaxSize ==
    cpc \in {"wrap", "done"}
        => /\ leaf.path \in {"direct", "budgeted", "fallback"}
           /\ TotalLeafElements <= max_size

C5_Witness ==
    /\ cpc = "done"
    /\ leaf.path = "budgeted"
    /\ leaf.kind = "string"
    /\ max_size >= 2
    /\ TotalLeafElements = max_size
    /\ WrapperDepth >= 2

\* C6: the number of structural wrapper layers of a content produced by
\* contents(max_depth=D), the ListOffsetArray of a string or bytestring leaf
\* not counted, is at most max(D, 0).
C6_DepthWithinMaxDepth == WrapperDepth <= Max2(max_depth, 0)

C6_Witness ==
    /\ cpc = "done"
    /\ max_depth >= 2
    /\ WrapperDepth = max_depth
    /\ leaf.kind = "bytestring"
    /\ tree[Len(tree)].type = "ListOffsetArray"

\* C14: with allow_nan=False, the NumpyArray leaf of a content produced by
\* contents() holds no NaN or NaT, whether the leaf was drawn directly, from
\* the budgeted drawer or as the zero-size fallback: allow_nan reaches
\* numpy_array_contents through leaf_contents unchanged.
C14_NoNanUnlessAllowed ==
    (cpc \in {"wrap", "done"} /\ ~allow_nan) => ~leaf.nan

C14_Witness ==
    /\ cpc = "done"
    /\ ~allow_nan
    /\ allow.numpy
    /\ leaf.kind = "numpy"
    /\ leaf.path = "budgeted"
    /\ leaf.len = 2
    /\ WrapperDepth = 1

\* the nodes of the tree that are ListOffsetArray nodes
ListOffsetNodes == {i \in 1..Len(tree) : tree[i].type = "ListOffsetArray"}

LeafBuffers ==
    {i \in 1..Len(tree) : tree[i].type \in {"NumpyArray", "EmptyArray"}}

\* C23: every run of contents() with a leaf kind enabled terminates and
\* returns a content: it makes at most max_depth descents, it never ends in
\* an error or a rejected example, it draws exactly one leaf, and when the
\* budgeted drawer returns None the leaf is drawn with min_size=0 and
\* max_size=0 and has length 0.
C23_TerminatesWithOneLeaf ==
    /\ [](~NoLeafAllowed(allow)
            => /\ depth <= Max2(max_depth, 0)
               /\ cpc \in {"start", "build", "wrap", "done"}
               /\ cpc \in {"start", "build"} => leaf = NoLeaf
               /\ cpc \in {"wrap", "done"}
                    => /\ leaf.path \in {"direct", "budgeted", "fallback"}
                       /\ Cardinality(LeafBuffers) = 1
                       /\ n_draws = IF leaf.path = "budgeted" THEN 1 ELSE 0
               /\ leaf.path = "fallback"
                    => /\ last.ret = "None"
                       /\ leaf.min_size = 0
                       /\ leaf.max_size = 0
                       /\ leaf.len = 0)
    /\ ~NoLeafAllowed(allow) ~> cpc = "done"

C23_Witness ==
    /\ cpc = "done"
    /\ leaf.path = "fallback"
    /\ last.ret = "None"
    /\ leaf.kind = "numpy"
    /\ leaf.len = 0
    /\ max_size = 2
    /\ max_depth = 2
    /\ WrapperDepth = 2

(***************************************************************************)
(* Claims about the structural wrappers, checked under SpecWrappers       *)
(***************************************************************************)
ListFns == {"list_offset_array_contents", "_list_offset_array_contents",
            "_list_array_contents"}

RegularFns == {"regular_array_contents", "_regular_array_contents"}

\* the greatest number of lists the strategy drawn from may choose
MaxLengthUsed ==
    IF fn = "list_offset_array_contents" THEN max_length ELSE MAX_LIST_LENGTH

\* the greatest group size the strategy drawn from may choose
MaxSizeUsed ==
    IF fn = "regular_array_contents" THEN regular_max_size
    ELSE MAX_REGULAR_SIZE

\* C7: the offsets built by the list-offset wrapper, and the starts and
\* stops the list wrapper takes from them, have N + 1 entries with
\* 0 <= N <= max_length, start at 0, never decrease and end at or below the
\* child's length; the wrapper's length is N.
C7_OffsetsWellFormed ==
    fn \in ListFns
        => /\ Len(offsets) = n + 1
           /\ 0 <= n
           /\ n <= MaxLengthUsed
           /\ offsets[1] = 0
           /\ \A i \in 1..n : offsets[i] <= offsets[i + 1]
           /\ offsets[n + 1] <= child_len
           /\ wlen = n
           /\ fn = "_list_array_contents"
                => /\ Len(starts) = n
                   /\ Len(stops) = n
                   /\ \A i \in 1..n : /\ starts[i] = offsets[i]
                                      /\ stops[i] = offsets[i + 1]

C7_Witness ==
    /\ fn = "list_offset_array_contents"
    /\ child_len = 4
    /\ max_length = 3
    /\ offsets = <<0, 1, 1, 4>>
    /\ wlen = 3

\* C8: for a child of length Lc > 0, a stride S > 0 chosen by the
\* regular-array wrapper divides Lc and 1 <= S <= min(Lc, max_size).
C8_StrideDivides ==
    (fn \in RegularFns /\ child_len > 0 /\ size > 0)
        => /\ child_len % size = 0
           /\ 1 <= size
           /\ size <= Min2(child_len, MaxSizeUsed)

C8_Witness ==
    /\ fn = "regular_array_contents"
    /\ child_len = 4
    /\ regular_max_size = 3
    /\ size = 2
    /\ wlen = 2

\* the divisors of the child's length in [1, max_size]
DivisorsWithinMaxSize ==
    {d \in 1..regular_max_size : child_len % d = 0}

\* C24: for a child of length Lc > 0, regular_array_contents chooses the
\* stride 0 exactly when no divisor of Lc lies in [1, max_size], which is
\* exactly when max_size < 1; then, and whenever the stride 0 is chosen for
\* Lc = 0, the wrapper has size 0 and its length is a zeros_length drawn
\* from [0, max_zeros_length]; otherwise the stride is a divisor of Lc and
\* no zeros_length is drawn.
C24_ZeroStrideOnlyWithoutDivisor ==
    fn = "regular_array_contents"
        => /\ child_len > 0
                => /\ (size = 0) <=> (DivisorsWithinMaxSize = {})
                   /\ (size = 0) <=> (regular_max_size < 1)
           /\ size = 0
                => /\ zeros_length \in 0..max_zeros_length
                   /\ wlen = zeros_length
           /\ size # 0
                => /\ size \in 1..regular_max_size
                   /\ child_len % size = 0
                   /\ zeros_length = NoneVal
                   /\ wlen * size = child_len

C24_Witness ==
    /\ fn = "regular_array_contents"
    /\ child_len = 3
    /\ regular_max_size = 0
    /\ size = 0
    /\ max_zeros_length = 3
    /\ zeros_length = 2
    /\ wlen = 2

\* the groups of the list wrapper that hold the child's element e
GroupsHolding(e) ==
    {i \in 1..n : offsets[i] <= e /\ e < offsets[i + 1]}

\* C29: whenever the list-offset or the list wrapper chooses a group count
\* N >= 1, the last offset is the child's length Lc exactly, so every
\* element of the child belongs to exactly one group and consecutive groups
\* are contiguous; only for N = 0 is the child left unreferenced.
C29_GroupsCoverChild ==
    fn \in ListFns
        => /\ n >= 1
                => /\ offsets[1] = 0
                   /\ offsets[n + 1] = child_len
                   /\ \A e \in 0..(child_len - 1) :
                        Cardinality(GroupsHolding(e)) = 1
                   /\ fn = "_list_array_contents"
                        => /\ starts[1] = 0
                           /\ stops[n] = child_len
                           /\ \A i \in 1..(n - 1) : starts[i + 1] = stops[i]
           /\ n = 0
                => /\ offsets = <<0>>
                   /\ \A e \in 0..(child_len - 1) : GroupsHolding(e) = {}

C29_Witness ==
    /\ fn = "_list_array_contents"
    /\ child_len = 4
    /\ n = 3
    /\ offsets = <<0, 3, 3, 4>>
    /\ starts = <<0, 3, 3>>
    /\ stops = <<3, 3, 4>>

\* C20: list_offset_array_contents uses its child unchanged: given a
\* concrete Content, the content of the result is that same object (and
\* nothing is drawn for it); given a strategy, the strategy is drawn from
\* exactly once and the content of the result is the object of that draw.
C20_ChildUsedUnchanged ==
    fn = "list_offset_array_contents"
        => /\ content_arg = "Content"
                => /\ result_content = GivenContent
                   /\ content_drawn = <<>>
           /\ content_arg = "strategy"
                => /\ Len(content_drawn) = 1
                   /\ result_content = content_drawn[1]

C20_Witness ==
    /\ fn = "list_offset_array_contents"
    /\ content_arg = "strategy"
    /\ Len(content_drawn) = 1
    /\ result_content = content_drawn[1]
    /\ child_len = 3
    /\ n = 2
    /\ offsets = <<0, 1, 3>>

(***************************************************************************)
(* Claims about union_array_contents, checked under SpecUnion              *)
(***************************************************************************)

\* the positions of the union that carry tag j (children are numbered from 0)
TagPositions(j) == {i \in 1..Len(tags) : tags[i] = j}

\* C9: with max_length=None, over children of lengths L_0..L_{k-1} the tags
\* and index arrays have length L_0+...+L_{k-1}, tag j occurs exactly L_j
\* times and the index values paired with tag j are a permutation of
\* 0..L_j-1.
C9_TagsAndIndexPartition ==
    (upc = "done" /\ union_max_length = NoneVal)
        => /\ Len(tags) = SumSeq(children)
           /\ Len(index) = SumSeq(children)
           /\ \A j \in 1..Len(children) :
                /\ Cardinality(TagPositions(j - 1)) = children[j]
                /\ {index[i] : i \in TagPositions(j - 1)}
                       = 0..(children[j] - 1)

C9_Witness ==
    /\ upc = "done"
    /\ union_max_length = NoneVal
    /\ children = <<2, 3>>
    /\ tags = <<1, 0, 1, 0, 1>>
    /\ index = <<2, 1, 0, 0, 1>>

\* C10: when max_length is given, every union produced has length at most
\* max_length, whether the children were freshly drawn, drawn from a
\* strategy given, or given as a list.
C10_UnionWithinMaxLength ==
    (upc = "done" /\ union_max_length # NoneVal)
        => /\ Len(tags) <= union_max_length
           /\ Len(index) <= union_max_length

C10_Witness ==
    /\ upc = "done"
    /\ mode = "list"
    /\ union_max_length = 2
    /\ SumSeq(children) >= 4
    /\ Len(tags) = 2
    /\ Len(index) = 2

\* the length the claim gives the union: the sum of the children's lengths,
\* cut to max_length when max_length is given
UnionLength ==
    IF union_max_length = NoneVal THEN SumSeq(children)
    ELSE Min2(SumSeq(children), union_max_length)

\* C25: for any list of k children and any max_length >= 0 or None, cut or
\* not, the tags and index arrays have the same length min(sum of the
\* children's lengths, max_length), every tag is in [0, k), every index is
\* in [0, len(child[tag])), and no (tag, index) pair occurs twice.
C25_TagsAndIndexWellFormed ==
    upc \in {"done", "raised"}
        => /\ Len(tags) = UnionLength
           /\ Len(index) = UnionLength
           /\ \A i \in 1..Len(tags) :
                /\ tags[i] \in 0..(Len(children) - 1)
                /\ index[i] \in 0..(children[tags[i] + 1] - 1)
           /\ \A i, j \in 1..Len(tags) :
                (tags[i] = tags[j] /\ index[i] = index[j]) => i = j

C25_Witness ==
    /\ upc = "done"
    /\ mode = "list"
    /\ union_max_length = 2
    /\ children = <<1, 0, 3>>
    /\ tags = <<2, 2>>
    /\ index = <<2, 0>>

\* C11: whenever fewer than 2 children are available, in every input mode,
\* the union wrapper rejects the example: it never constructs a union from 0
\* or 1 children (and does not end in an error either).
C11_FewerThanTwoRejected ==
    (upc # "start" /\ Len(children) < 2) => upc = "rejected"

(***************************************************************************)
(* Claims about leaf_contents, checked under SpecLeaf                      *)
(***************************************************************************)

\* C12: every leaf drawn from leaf_contents(min_size=a, max_size=b, ...) has
\* a length in [a, b], for every combination of enabled leaf kinds; an
\* EmptyArray is never drawn when min_size > 0.
C12_LeafLengthWithinBounds ==
    lpc = "done"
        => /\ leaf_min_size <= leaf_result.len
           /\ leaf_result.len <= leaf_max_size
           /\ leaf_min_size > 0 => leaf_result.kind # "empty"

C12_Witness ==
    /\ lpc = "done"
    /\ leaf_min_size = 2
    /\ leaf_max_size = 3
    /\ leaf_allow.empty
    /\ leaf_allow.numpy
    /\ leaf_result.kind = "numpy"
    /\ leaf_result.len = 2

\* the four allow_* flags of leaf_contents are all False
AllLeafKindsOff ==
    /\ ~leaf_allow.numpy
    /\ ~leaf_allow.empty
    /\ ~leaf_allow.string
    /\ ~leaf_allow.bytestring

C30_OptionsNonEmpty ==
    lpc \in {"strategy", "done", "rejected"}
        => /\ LeafOptions(leaf_allow, leaf_min_size) # {}
           /\ lpc # "rejected"

(***************************************************************************)
(* Claims about the recorders, checked under SpecRecord                    *)
(***************************************************************************)

\* C15: for every RecordDraws, after n draws since its list drawn was last
\* empty, drawn has n entries, the i-th of which is the value the i-th draw
\* returned, and every draw returned the value its wrapped strategy produced.
C15_DrawnIsTheDrawsInOrder ==
    \A id \in 1..Len(drawn) :
        /\ drawn[id] = returned[id]
        /\ returned[id] = base_values[id]

C15_Witness ==
    \E id \in 1..Len(drawn) :
        /\ drawn[id] = <<"a", "b">>
        /\ returned[id] = <<"a", "b">>
        /\ \E c \in 1..Len(chains) : <<c, id>> \in registered
        /\ since_reset[id] = 2

\* the values of a list of draws
ValuesOf(log) == [i \in 1..Len(log) |-> log[i].value]

\* the draws made from the recorder id among those of the RecordCallDraws k
DrawsFrom(k, id) == SelectSeq(call_log[k], LAMBDA e : e.recorder = id)

\* the recorders the RecordCallDraws k returned since its last reset, in the
\* order of the calls that returned them
LiveRecorders(k) ==
    LET ids == {id \in 1..Len(drawn) : owner[id] = k /\ id > reset_mark[k]}
    IN CHOOSE q \in [1..Cardinality(ids) -> ids] :
          \A i, j \in 1..Cardinality(ids) : i < j => q[i] < q[j]

\* C16 (as claimed): for any interleaving of factory calls and draws, drawn
\* of a RecordCallDraws is the list of the values drawn from the recorders it
\* returned since its last reset, in the order in which they were drawn.
C16_DrawnInDrawOrder ==
    \A k \in 1..Len(call_recorders) : CallDrawn(k) = ValuesOf(call_log[k])

\* C16 (amended): drawn of a RecordCallDraws holds the values drawn from the
\* recorders it returned since its last reset, each once, pooled in the
\* order of the calls that returned the recorders and, for one recorder, in
\* the order drawn.
C16_DrawnPooledInCallOrder ==
    \A k \in 1..Len(call_recorders) :
        /\ call_recorders[k] = LiveRecorders(k)
        /\ CallDrawn(k) =
             ConcatAll([i \in 1..Len(LiveRecorders(k)) |->
                           ValuesOf(DrawsFrom(k, LiveRecorders(k)[i]))])

C16_Witness ==
    \E k \in 1..Len(call_recorders) :
        /\ Len(call_recorders[k]) = 2
        /\ ValuesOf(call_log[k]) = <<"b", "a", "b">>
        /\ CallDrawn(k) = <<"a", "b", "b">>

\* C17: for a RecordDraws registered on an OptsChain, reset() of the chain
\* leaves its list drawn empty whatever was drawn before, a draw after it
\* leaves the list with one entry (n draws: n entries), and the recorder
\* stays registered on the chain, so that a later reset() empties the list
\* again.
C17_ResetEmptiesAndKeepsRegistered ==
    /\ \A p \in registered : p[2] \in Range(chains[p[1]].recorders)
    /\ \A id \in 1..Len(drawn) :
         since_reset[id] # NoneVal => Len(drawn[id]) = since_reset[id]

C17_Witness ==
    /\ Len(chains) = 2
    /\ Len(drawn) = 1
    /\ registered = {<<1, 1>>, <<2, 1>>}
    /\ n_do_draws = 3
    /\ since_reset[1] = 1
    /\ Len(drawn[1]) = 1

\* C26: after RecordCallDraws.reset(), called directly or through
\* OptsChain.reset(), all the logs are empty: the pooled list drawn is empty
\* and so is the list drawn of every recorder the wrapper returned before,
\* whatever was called and drawn before the reset.  A step that moves the
\* reset mark of the wrapper k is a reset of k.
C26_ResetEmptiesAllLogs ==
    [][\A k \in 1..Len(call_recorders) :
          reset_mark'[k] # reset_mark[k]
              => /\ CallDrawn(k)' = <<>>
                 /\ \A id \in 1..Len(drawn) :
                      owner[id] = k => drawn'[id] = <<>>]_vars

(***************************************************************************)
(* Claims about ranges(), checked under SpecRanges                         *)
(***************************************************************************)

\* C18: every pair (start, end) produced satisfies: start, when present,
\* lies in [min_start, max_start]; end, when present, lies in
\* [min_end, max_end]; when both are present start <= end, and start < end
\* when allow_equal is False; start is present when allow_start_none is
\* False; end is absent when start is absent and let_end_none_if_start_none
\* is set, and otherwise present when allow_end_none is False.
C18_RangePairWithinBounds ==
    rpc = "done"
        => /\ start # NoneVal
                => /\ min_start # NoneVal => min_start <= start
                   /\ max_start # NoneVal => start <= max_start
           /\ end # NoneVal
                => /\ min_end # NoneVal => min_end <= end
                   /\ max_end # NoneVal => end <= max_end
           /\ (start # NoneVal /\ end # NoneVal)
                => /\ start <= end
                   /\ ~allow_equal => start < end
           /\ ~allow_start_none => start # NoneVal
           /\ IF start = NoneVal /\ let_end_none_if_start_none
              THEN end = NoneVal
              ELSE ~allow_end_none => end # NoneVal

C18_Witness ==
    /\ rpc = "done"
    /\ ~allow_equal
    /\ ~allow_end_none
    /\ min_start = 1
    /\ max_start = 3
    /\ min_end = 0
    /\ max_end = 3
    /\ start = 2
    /\ end = 3

=============================================================================
